---- MODULE Spec2Model ----
(***************************************************************************)
(* A model of go51: the 8051 core (package mu51: decode table, ALU stack   *)
(* and instruction primitives, instruction fetch, CPU.Step) and the        *)
(* code memory it reads through (package ihex: the Intel HEX parser, the   *)
(* parsed File and its FileReader).                                        *)
(*                                                                         *)
(* The ALU struct is one record-valued variable, alu, whose fields keep    *)
(* the Go names.  Every method of *ALU is an operator from an ALU record   *)
(* (and the method's arguments) to the ALU record the method leaves        *)
(* behind; a method with a result returns [a |-> ALU, ret |-> result].     *)
(* uint8 and uint16 arithmetic wraps: every sum is reduced modulo 2^8 or   *)
(* 2^16 exactly where Go's typed arithmetic reduces it.                    *)
(***************************************************************************)
EXTENDS Integers, Sequences, FiniteSets, TLC

VARIABLES
    alu,      \* the ALU struct: InternalRAM, StackPtr, DataPtr, ProgStatus, Accum, BReg, ProgCount
    ProgMem,  \* the CPU's code memory (CPU.ProgMem): a FileReader over a parsed hex File
    input,    \* the lines of the stream handed to Parse
    last,     \* the most recent call: [op, arg, ret, pre], pre the receiver (ALU or FileReader) before it
    prev,     \* the call before last
    nOps      \* number of calls made so far

vars == <<alu, ProgMem, input, last, prev, nOps>>

(***************************************************************************)
(* Bounds of the model.                                                    *)
(***************************************************************************)
\* the number of calls made on one ALU
MaxOps == 2
\* the highest code-memory offset an instruction is read at
MaxOffset == 4
\* the longest destination slice of a Retrieve
MaxLen == 3
\* the most lines of an input stream
MaxLines == 3
\* the most records of a stream of base and data records
MaxRecords == 4

(***************************************************************************)
(* Machine integers.                                                       *)
(***************************************************************************)
\* number of values of a uint8 (type byte)
Byte == 256
\* number of values of a uint16
Word == 65536

Bytes == 0..(Byte - 1)
Words == 0..(Word - 1)

\* Go's x & y on unsigned integers
RECURSIVE BitAnd(_, _)
BitAnd(x, y) ==
    IF x = 0 \/ y = 0 THEN 0
    ELSE (x % 2) * (y % 2) + 2 * BitAnd(x \div 2, y \div 2)

\* Go's x | y on unsigned integers
RECURSIVE BitOr(_, _)
BitOr(x, y) ==
    IF x = 0 THEN y
    ELSE IF y = 0 THEN x
    ELSE (IF x % 2 = 1 \/ y % 2 = 1 THEN 1 ELSE 0) + 2 * BitOr(x \div 2, y \div 2)

\* Go's x &^ y (bit clear) on unsigned integers
RECURSIVE BitAndNot(_, _)
BitAndNot(x, y) ==
    IF x = 0 THEN 0
    ELSE (IF x % 2 = 1 /\ y % 2 = 0 THEN 1 ELSE 0) + 2 * BitAndNot(x \div 2, y \div 2)

\* Go's x >> n on unsigned integers
Shr(x, n) == x \div (2 ^ n)

\* Go's uint8(x) and uint16(x): truncation
U8(x) == x % Byte
U16(x) == x % Word

(***************************************************************************)
(* The program status word's bit masks (const block, iota shifts).         *)
(***************************************************************************)
ParityBit == 1
UserBit == 2
OverFlowBit == 4
RS0Bit == 8
RS1Bit == 16
FlagBit == 32
AuxCarryBit == 64
CarryBit == 128

(***************************************************************************)
(* The ALU's stack primitives.                                             *)
(***************************************************************************)
\* a.StackPtr is stored before the increment: the slot written is the old top
PushByteStoreFirst(a, b) ==
    [a EXCEPT !.InternalRAM[a.StackPtr] = b,
              !.StackPtr = U8(a.StackPtr + 1)]

\* a.StackPtr++ ; a.InternalRAM[a.StackPtr] = byte
PushByte(a, b) ==
    LET sp == U8(a.StackPtr + 1)
    IN  [a EXCEPT !.StackPtr = sp, !.InternalRAM[sp] = b]

\* b := a.InternalRAM[a.StackPtr] ; a.StackPtr-- ; return b
PopByte(a) ==
    [a   |-> [a EXCEPT !.StackPtr = U8(a.StackPtr + Byte - 1)],
     ret |-> a.InternalRAM[a.StackPtr]]

\* a.InternalRAM[a.StackPtr+1] = uint8(word)
\* a.InternalRAM[a.StackPtr+2] = uint8(word >> 8)
\* a.StackPtr += 2
PushWord(a, w) ==
    LET a1 == [a  EXCEPT !.InternalRAM[U8(a.StackPtr + 1)] = U8(w)]
        a2 == [a1 EXCEPT !.InternalRAM[U8(a.StackPtr + 2)] = U8(Shr(w, 8))]
    IN  [a2 EXCEPT !.StackPtr = U8(a.StackPtr + 2)]

\* the two bytes are read in the order PushWord would have to store them
\* high byte first
PopWordSwapped(a) ==
    [a   |-> [a EXCEPT !.StackPtr = U8(a.StackPtr + Byte - 2)],
     ret |-> BitOr(U16(a.InternalRAM[U8(a.StackPtr + Byte - 1)] * Byte),
                   a.InternalRAM[a.StackPtr])]

\* ret := uint16(a.InternalRAM[a.StackPtr]) << 8
\* ret = ret | uint16(a.InternalRAM[a.StackPtr-1])
\* a.StackPtr -= 2
PopWord(a) ==
    [a   |-> [a EXCEPT !.StackPtr = U8(a.StackPtr + Byte - 2)],
     ret |-> BitOr(U16(a.InternalRAM[a.StackPtr] * Byte),
                   a.InternalRAM[U8(a.StackPtr + Byte - 1)])]

(***************************************************************************)
(* Control transfer.                                                       *)
(***************************************************************************)
\* the address of the ACALL itself is pushed, not that of its successor
InstrACALLPushOwn(a, rel) ==
    [PushWord(a, a.ProgCount) EXCEPT
        !.ProgCount = U16(BitAnd(U16(a.ProgCount + 2), 63488) + BitAnd(rel, 2047))]

\* a.PushWord(a.ProgCount + 2)
\* a.ProgCount = (a.ProgCount+2)&0xF800 + rel&0x7FF
InstrACALL(a, rel) ==
    [PushWord(a, U16(a.ProgCount + 2)) EXCEPT
        !.ProgCount = U16(BitAnd(U16(a.ProgCount + 2), 63488) + BitAnd(rel, 2047))]

\* the page is taken from the address of the AJMP itself, not of its successor
InstrAJMPOwnPage(a, rel) ==
    [a EXCEPT !.ProgCount = U16(BitAnd(a.ProgCount, 63488) + BitAnd(rel, 2047))]

\* a.ProgCount = (a.ProgCount+2)&0xF800 + rel&0x07FF
\* (Go binds & tighter than +)
InstrAJMP(a, rel) ==
    [a EXCEPT !.ProgCount = U16(BitAnd(U16(a.ProgCount + 2), 63488) + BitAnd(rel, 2047))]

\* a.ProgCount = a.PopWord()
InstrRET(a) ==
    LET p == PopWord(a) IN [p.a EXCEPT !.ProgCount = p.ret]

\* a.ProgCount = a.PopWord()   (no interrupts are modelled by the code)
InstrRETI(a) ==
    LET p == PopWord(a) IN [p.a EXCEPT !.ProgCount = p.ret]

\* the address of the LCALL itself is pushed, not that of its successor
InstrLCALLPushOwn(a, addr) ==
    [PushWord(a, a.ProgCount) EXCEPT !.ProgCount = addr]

\* a.PushWord(a.ProgCount + 3) ; a.ProgCount = addr
InstrLCALL(a, addr) ==
    [PushWord(a, U16(a.ProgCount + 3)) EXCEPT !.ProgCount = addr]

\* a.ProgCount = addr
InstrLJMP(a, addr) ==
    [a EXCEPT !.ProgCount = addr]

(***************************************************************************)
(* Stack and accumulator instructions.                                     *)
(***************************************************************************)
\* a.PushByte(a.InternalRAM[loc])
InstrPUSH(a, loc) == PushByte(a, a.InternalRAM[loc])

\* the popped byte goes to ProgCount instead of InternalRAM[loc]
InstrPOPCount(a, loc) ==
    LET p == PopByte(a) IN [p.a EXCEPT !.ProgCount = p.ret]

\* a.InternalRAM[loc] = a.PopByte()
\* Go evaluates the index operand loc and the call before the assignment
InstrPOP(a, loc) ==
    LET p == PopByte(a) IN [p.a EXCEPT !.InternalRAM[loc] = p.ret]

\* a.Accum = (a.Accum >> 4) & (a.Accum << 4)
InstrSWAP(a) ==
    [a EXCEPT !.Accum = BitAnd(Shr(a.Accum, 4), U8(a.Accum * 16))]

\* the carry bit is left as it was
InstrMULKeepCarry(a) ==
    LET res == U16(a.Accum * a.BReg)
    IN  [a EXCEPT !.BReg = U8(Shr(res, 16)),
                  !.Accum = U8(res),
                  !.ProgStatus = IF res > 255
                                 THEN BitOr(a.ProgStatus, OverFlowBit)
                                 ELSE BitAndNot(a.ProgStatus, OverFlowBit)]

\* var res = uint16(a.Accum) * uint16(a.BReg)
\* a.BReg = uint8(res >> 16)
\* a.Accum = uint8(res)
\* a.ProgStatus = a.ProgStatus &^ CarryBit
\* if res > 255 { ProgStatus |= OverFlowBit } else { ProgStatus &^= OverFlowBit }
InstrMUL(a) ==
    LET res == U16(a.Accum * a.BReg)
        psw == BitAndNot(a.ProgStatus, CarryBit)
    IN  [a EXCEPT !.BReg = U8(Shr(res, 16)),
                  !.Accum = U8(res),
                  !.ProgStatus = IF res > 255
                                 THEN BitOr(psw, OverFlowBit)
                                 ELSE BitAndNot(psw, OverFlowBit)]

\* return ((a.ProgStatus >> 3) & 0x03) * 8      (the parameter r is not used)
regAddr(a, r) == U8(BitAnd(Shr(a.ProgStatus, 3), 3) * 8)

\* regLoc = a.regAddr(1) or a.regAddr(0) ; loc = a.InternalRAM[regLoc]
\* a.Accum, a.InternalRAM[loc] = a.InternalRAM[loc], a.Accum
InstrXCHInd(a, R1) ==
    LET regLoc == IF R1 THEN regAddr(a, 1) ELSE regAddr(a, 0)
        loc    == a.InternalRAM[regLoc]
    IN  [a EXCEPT !.Accum = a.InternalRAM[loc], !.InternalRAM[loc] = a.Accum]

\* var loc = a.regAddr(reg)
\* a.Accum, a.InternalRAM[loc] = a.InternalRAM[loc], a.Accum
InstrXCHDir(a, reg) ==
    LET loc == regAddr(a, reg)
    IN  [a EXCEPT !.Accum = a.InternalRAM[loc], !.InternalRAM[loc] = a.Accum]

\* a.Accum, a.InternalRAM[loc] = a.InternalRAM[loc], a.Accum
InstrXCHImmed(a, loc) ==
    [a EXCEPT !.Accum = a.InternalRAM[loc], !.InternalRAM[loc] = a.Accum]

(***************************************************************************)
(* The sparse code memory: a parsed hex File read through a FileReader.    *)
(***************************************************************************)
\* A uint32 is held as the integer that has the same 32 bits in two's
\* complement: a value below 2^31 as itself, a value v from 2^31 on as
\* v - 2^32 (0xFFFFFFFC as -4).  Its 16-bit halves, as unsigned numbers:
Hi16(u) == ((u - (u % Word)) \div Word) % Word
Lo16(u) == u % Word

\* the uint32 with high half hi and low half lo
Join16(hi, lo) ==
    IF hi >= 32768 THEN (hi - Word) * Word + lo ELSE hi * Word + lo

\* a + b on uint32 (wraps at 2^32)
Add32(a, b) ==
    LET lo == Lo16(a) + Lo16(b)
    IN  Join16((Hi16(a) + Hi16(b) + (lo \div Word)) % Word, lo % Word)

\* a - b on uint32 (wraps at 2^32)
Sub32(a, b) ==
    LET lo == Word + Lo16(a) - Lo16(b)
    IN  Join16((Word + Hi16(a) - Hi16(b) - 1 + (lo \div Word)) % Word, lo % Word)

\* a < b on uint32
Less32(a, b) ==
    \/ Hi16(a) < Hi16(b)
    \/ Hi16(a) = Hi16(b) /\ Lo16(a) < Lo16(b)

\* uint32(x) of an int or int64 x: the low 32 bits of x, which for the x of
\* this model (-2^31 <= x < 2^31) are the bits x is held with
U32(x) == x

\* int(u) and int64(u) of a uint32 u (64-bit int): u itself; the values from
\* 2^31 on have no int in this model, whose integers end at 2^31 - 1
ToInt(u) == CASE u >= 0 -> u

\* a File value and a FileReader over it
MkFile(mem) == [CS |-> 0, IP |-> 0, EIP |-> 0, Memory |-> mem]
MkFileReader(f, pad) == [File |-> f, Offset |-> 0, Pad |-> pad]

\* the records v of f.Memory, in order, with
\* offset < v.Offset+uint32(len(v.Data)) && offset+length > v.Offset
GetSegments(f, offset, length) ==
    LET Overlaps(v) == /\ Less32(offset, Add32(v.Offset, U32(Len(v.Data))))
                       /\ Less32(v.Offset, Add32(offset, length))
    IN  SelectSeq(f.Memory, Overlaps)

\* s := f.GetSegments(addr, 1) ; pad if len(s) == 0 ;
\* s[0].Data[int(addr-s[0].Offset)]
GetByte(f, addr, pad) ==
    LET s == GetSegments(f, addr, 1)
    IN  IF Len(s) = 0 THEN pad
        ELSE s[1].Data[ToInt(Sub32(addr, s[1].Offset)) + 1]

\* fillByte(addr, dst, r, pad) and the loop of Retrieve around it, for one
\* index of dst: the byte stored in dst[i] and the segment index left behind
RECURSIVE FillFrom(_, _, _, _)
FillFrom(s, segIndex, addr, pad) ==
    LET r == s[segIndex + 1]
    IN  IF Less32(addr, r.Offset)
        THEN [val |-> pad, segIndex |-> segIndex]
        ELSE IF Less32(addr, Add32(r.Offset, U32(Len(r.Data))))
        THEN [val |-> r.Data[ToInt(Sub32(addr, r.Offset)) + 1], segIndex |-> segIndex]
        ELSE IF segIndex + 1 = Len(s)
        THEN [val |-> pad, segIndex |-> segIndex + 1]
        ELSE FillFrom(s, segIndex + 1, addr, pad)

\* the loop "for i := range dst" of Retrieve from index i on: the bytes
\* dst[i], ..., dst[n-1]
RECURSIVE RetrieveLoop(_, _, _, _, _, _)
RetrieveLoop(s, segIndex, offset, i, n, pad) ==
    IF i = n THEN <<>>
    ELSE IF segIndex = Len(s)
    THEN <<pad>> \o RetrieveLoop(s, segIndex, offset, i + 1, n, pad)
    ELSE LET fb == FillFrom(s, segIndex, Add32(offset, U32(i)), pad)
         IN  <<fb.val>> \o RetrieveLoop(s, fb.segIndex, offset, i + 1, n, pad)

\* f.Retrieve(offset, dst, pad) with len(dst) = n: the bytes left in dst
Retrieve(f, offset, n, pad) ==
    RetrieveLoop(GetSegments(f, offset, U32(n)), 0, offset, 0, n, pad)

\* f.Size(): offset + length of the last record, 0 without records
Size(f) ==
    IF Len(f.Memory) = 0 THEN 0
    ELSE LET lst == f.Memory[Len(f.Memory)]
         IN  ToInt(Add32(lst.Offset, U32(Len(lst.Data))))

\* fr.ReadAt(r, off) with len(r) = n: the bytes left in r, the count and the error
ReadAt(fr, n, off) ==
    LET s    == Size(fr.File)
        data == Retrieve(fr.File, U32(off), n, fr.Pad)
    IN  IF off + n > s
        THEN [data |-> data, n |-> s - off, err |-> "EOF"]
        ELSE [data |-> data, n |-> n, err |-> "nil"]

\* a read that reaches the end of the memory leaves Offset where it was
ReadKeepOffset(fr, n) ==
    LET max  == Size(fr.File) - fr.Offset
        data == Retrieve(fr.File, U32(fr.Offset), n, fr.Pad)
    IN  IF max <= 0
        THEN [fr |-> fr, data |-> <<>>, n |-> 0, err |-> "EOF"]
        ELSE IF n > max
        THEN [fr |-> fr, data |-> data, n |-> max, err |-> "EOF"]
        ELSE [fr |-> [fr EXCEPT !.Offset = @ + n], data |-> data, n |-> n, err |-> "nil"]

\* fr.Read(r) with len(r) = n: the reader left behind, the bytes written to r
\* (none when the call bails before Retrieve), the count and the error
\*   max := fr.Size() - fr.Offset ; if max <= 0 { return 0, io.EOF }
\*   fr.Retrieve(uint32(fr.Offset), r, fr.Pad)
\*   if int64(len(r)) > max { fr.Offset += max ; return int(max), io.EOF }
\*   fr.Offset += int64(len(r)) ; return len(r), nil
Read(fr, n) ==
    LET max  == Size(fr.File) - fr.Offset
        data == Retrieve(fr.File, U32(fr.Offset), n, fr.Pad)
    IN  IF max <= 0
        THEN [fr |-> fr, data |-> <<>>, n |-> 0, err |-> "EOF"]
        ELSE IF n > max
        THEN [fr |-> [fr EXCEPT !.Offset = @ + max], data |-> data, n |-> max,
              err |-> "EOF"]
        ELSE [fr |-> [fr EXCEPT !.Offset = @ + n], data |-> data, n |-> n, err |-> "nil"]

\* fr.Seek(offset, whence): the reader left behind, the offset returned and
\* the error.  The switch assigns fr.Offset before the sign is tested.
Seek(fr, offset, whence) ==
    IF whence \notin {0, 1, 2}
    THEN [fr |-> fr, ret |-> fr.Offset, err |-> "ErrUnsupportedWhence"]
    ELSE LET moved == CASE whence = 0 -> offset
                        [] whence = 1 -> fr.Offset + offset
                        [] whence = 2 -> Size(fr.File) + offset
             fr2   == [fr EXCEPT !.Offset = moved]
         IN  IF moved < 0
             THEN [fr |-> fr2, ret |-> moved, err |-> "ErrNegativeOffset"]
             ELSE [fr |-> fr2, ret |-> moved, err |-> "nil"]

(***************************************************************************)
(* The Intel HEX parser.  Text is a sequence of character codes.           *)
(***************************************************************************)
\* the record types (const block of Type)
Data == 0
EoF == 1
ESA == 2
SSA == 3
ELA == 4
SLA == 5

\* the error values Parse returns: nil, a plain error, a ParseError{Line, Err}
NilError == [kind |-> "nil", Line |-> 0, Err |-> "nil"]
PlainError(e) == [kind |-> "error", Line |-> 0, Err |-> e]
ParseError(line, e) == [kind |-> "ParseError", Line |-> line, Err |-> e]

\* rawRecord{} and a rawRecord
ZeroRecord == [Header |-> [Count |-> 0, Address |-> 0, Type |-> 0], Data |-> <<>>]
MkRecord(count, address, type, data) ==
    [Header |-> [Count |-> count, Address |-> address, Type |-> type], Data |-> data]

\* the lines bufio.Scanner yields for text (bufio.ScanLines): the text is cut
\* after each "\n", one "\r" before it is dropped, and what follows the last
\* "\n" is a line when it is not empty (lines stay far below the token limit)
DropCR(line) ==
    IF Len(line) > 0 /\ line[Len(line)] = 13
    THEN SubSeq(line, 1, Len(line) - 1)
    ELSE line

\* blank lines are not yielded
RECURSIVE ScanLinesSkipBlank(_)
ScanLinesSkipBlank(text) ==
    IF text = <<>> THEN <<>>
    ELSE LET ends == {k \in 1..Len(text) : text[k] = 10}
         IN  IF ends = {} THEN <<DropCR(text)>>
             ELSE LET nl   == CHOOSE k \in ends : \A m \in ends : k <= m
                      line == DropCR(SubSeq(text, 1, nl - 1))
                      rest == ScanLinesSkipBlank(SubSeq(text, nl + 1, Len(text)))
                  IN  IF line = <<>> THEN rest ELSE <<line>> \o rest

RECURSIVE ScanLines(_)
ScanLines(text) ==
    IF text = <<>> THEN <<>>
    ELSE LET ends == {k \in 1..Len(text) : text[k] = 10}
         IN  IF ends = {} THEN <<DropCR(text)>>
             ELSE LET nl == CHOOSE k \in ends : \A m \in ends : k <= m
                  IN  <<DropCR(SubSeq(text, 1, nl - 1))>>
                        \o ScanLines(SubSeq(text, nl + 1, Len(text)))

\* the value of hexadecimal digit c ('0'-'9', 'A'-'F', 'a'-'f'), 16 for any
\* other character
FromHexChar(c) ==
    IF c \in 48..57 THEN c - 48
    ELSE IF c \in 65..70 THEN c - 55
    ELSE IF c \in 97..102 THEN c - 87
    ELSE 16

\* hex.Decode(dst, src): the bytes decoded and the error; a character that is
\* no digit is an InvalidByteError, an odd number of digits ErrLength
HexDecode(src) ==
    LET n   == Len(src) \div 2
        bad == {k \in 1..Len(src) : FromHexChar(src[k]) > 15}
    IN  IF bad # {}
        THEN [data |-> <<>>, err |-> "InvalidByteError"]
        ELSE IF Len(src) % 2 = 1
        THEN [data |-> <<>>, err |-> "ErrLength"]
        ELSE [data |-> [i \in 1..n |-> FromHexChar(src[2 * i - 1]) * 16
                                         + FromHexChar(src[2 * i])],
              err |-> "nil"]

\* the sum of the bytes of b as the code adds them, in an int8: kept here as
\* the sum modulo 256, which is 0 exactly when the int8 is
RECURSIVE SumBytes(_)
SumBytes(b) == IF b = <<>> THEN 0 ELSE U8(b[1] + SumBytes(Tail(b)))

\* parseRecord(r) on a reader over b: the record, the error, and the number
\* of bytes left unread.  binary.Read fails with io.EOF when no byte is left
\* and with io.ErrUnexpectedEOF when too few are; it reads no byte for an
\* empty Data
parseRecord(b) ==
    IF Len(b) < 4
    THEN [r |-> ZeroRecord,
          err |-> IF Len(b) = 0 THEN "EOF" ELSE "ErrUnexpectedEOF",
          left |-> 0]
    ELSE LET count == b[1]
             left  == Len(b) - 4
         IN  IF count > left
             THEN [r |-> ZeroRecord,
                   err |-> IF left = 0 THEN "EOF" ELSE "ErrUnexpectedEOF",
                   left |-> 0]
             ELSE [r |-> MkRecord(count, b[2] * Byte + b[3], b[4],
                                  SubSeq(b, 5, 4 + count)),
                   err |-> "nil",
                   left |-> left - count]

\* parseRecordLine(bs): the record and the error
parseRecordLine(bs) ==
    IF Len(bs) < 11 THEN [r |-> ZeroRecord, err |-> "ErrInsufficentRecordLength"]
    ELSE IF bs[1] # 58 THEN [r |-> ZeroRecord, err |-> "ErrNoStartCode"]
    ELSE LET dec == HexDecode(Tail(bs))
         IN  IF dec.err # "nil" THEN [r |-> ZeroRecord, err |-> dec.err]
             ELSE IF Len(dec.data) # (Len(bs) - 1) \div 2
             THEN [r |-> ZeroRecord, err |-> "ErrUnexpectedDecodeLength"]
             ELSE IF SumBytes(dec.data) # 0
             THEN [r |-> ZeroRecord, err |-> "ErrChecksum"]
             ELSE LET p == parseRecord(SubSeq(dec.data, 1, Len(dec.data) - 1))
                  IN  IF p.err # "nil" THEN [r |-> ZeroRecord, err |-> p.err]
                      ELSE IF p.left # 0
                      THEN [r |-> ZeroRecord, err |-> "ErrExtraBytes"]
                      ELSE [r |-> p.r, err |-> "nil"]

\* the loop "for scn.Scan()" from line number i + 1 on, ret holding the
\* records of the lines before
RECURSIVE ScanRecords(_, _, _)
ScanRecords(lines, i, ret) ==
    IF i = Len(lines) THEN [rs |-> ret, err |-> NilError]
    ELSE LET p == parseRecordLine(lines[i + 1])
         IN  IF p.err # "nil"
             THEN [rs |-> <<>>, err |-> ParseError(i + 1, p.err)]
             ELSE ScanRecords(lines, i + 1, Append(ret, p.r))

\* the last line may be any record
CheckRecordsAnyLast(lines) ==
    LET scan == ScanRecords(lines, 0, <<>>)
        ret  == scan.rs
        eofs == {k \in 1..(Len(ret) - 1) : ret[k].Header.Type = EoF}
    IN  IF scan.err # NilError THEN scan
        ELSE IF Len(ret) = 0 THEN [rs |-> <<>>, err |-> PlainError("ErrNoEOF")]
        ELSE IF eofs # {}
        THEN LET k == CHOOSE k \in eofs : \A m \in eofs : k <= m
             IN  [rs |-> <<>>, err |-> ParseError(k - 1, "ErrUnexpectedEOF")]
        ELSE [rs |-> SubSeq(ret, 1, Len(ret) - 1), err |-> NilError]

\* the records of the lines and the checks on the EoF record, over a given
\* split of the text into lines
CheckRecords(lines) ==
    LET scan == ScanRecords(lines, 0, <<>>)
        ret  == scan.rs
        eofs == {k \in 1..(Len(ret) - 1) : ret[k].Header.Type = EoF}
    IN  IF scan.err # NilError THEN scan
        ELSE IF Len(ret) = 0 THEN [rs |-> <<>>, err |-> PlainError("ErrNoEOF")]
        ELSE IF eofs # {}
        THEN LET k == CHOOSE k \in eofs : \A m \in eofs : k <= m
             IN  [rs |-> <<>>, err |-> ParseError(k - 1, "ErrUnexpectedEOF")]
        ELSE IF ret[Len(ret)].Header.Type # EoF
        THEN [rs |-> <<>>, err |-> PlainError("ErrNoEOF")]
        ELSE [rs |-> SubSeq(ret, 1, Len(ret) - 1), err |-> NilError]

\* parseHexFileRecords(r) on a reader over text
parseHexFileRecords(text) == CheckRecords(ScanLines(text))

\* a big-endian uint16 from the two bytes of b at index k
BigEndian16(b, k) == b[k] * Byte + b[k + 1]

\* an ESA or ELA record adds its base to the offset in force
RECURSIVE ParseLoopAddBase(_, _, _, _)
ParseLoopAddBase(rs, i, offset, ret) ==
    IF i = Len(rs) THEN [file |-> ret, err |-> NilError]
    ELSE LET v == rs[i + 1]
             t == v.Header.Type
         IN  IF t = Data
             THEN ParseLoopAddBase(rs, i + 1, offset,
                      [ret EXCEPT !.Memory =
                          Append(@, [Offset |-> Add32(offset, U32(v.Header.Address)),
                                     Data |-> v.Data])])
             ELSE IF t = EoF
             THEN [file |-> ret, err |-> PlainError("ErrInternalError")]
             ELSE IF t = ESA
             THEN IF v.Header.Count # 2
                  THEN [file |-> ret, err |-> ParseError(i, "ErrIncorrectDataLength")]
                  ELSE ParseLoopAddBase(rs, i + 1,
                           Add32(offset, BigEndian16(v.Data, 1) * 16), ret)
             ELSE IF t = SSA
             THEN IF v.Header.Count # 4
                  THEN [file |-> ret, err |-> ParseError(i, "ErrIncorrectDataLength")]
                  ELSE ParseLoopAddBase(rs, i + 1, offset,
                           [ret EXCEPT !.CS = BigEndian16(v.Data, 1),
                                       !.IP = BigEndian16(v.Data, 3)])
             ELSE IF t = ELA
             THEN IF v.Header.Count # 2
                  THEN [file |-> ret, err |-> ParseError(i, "ErrIncorrectDataLength")]
                  ELSE ParseLoopAddBase(rs, i + 1,
                           Add32(offset, Join16(BigEndian16(v.Data, 1), 0)), ret)
             ELSE IF t = SLA
             THEN IF v.Header.Count # 4
                  THEN [file |-> ret, err |-> ParseError(i, "ErrIncorrectDataLength")]
                  ELSE ParseLoopAddBase(rs, i + 1, offset,
                           [ret EXCEPT !.EIP = Join16(BigEndian16(v.Data, 1),
                                                      BigEndian16(v.Data, 3))])
             ELSE [file |-> ret, err |-> PlainError("ErrUnknownDataType")]

\* the loop "for i, v := range rs" of Parse from index i on (i counts from
\* 0), with the offset and the File built so far: the File and the error
RECURSIVE ParseLoop(_, _, _, _)
ParseLoop(rs, i, offset, ret) ==
    IF i = Len(rs) THEN [file |-> ret, err |-> NilError]
    ELSE LET v == rs[i + 1]
             t == v.Header.Type
         IN  IF t = Data
             THEN ParseLoop(rs, i + 1, offset,
                      [ret EXCEPT !.Memory =
                          Append(@, [Offset |-> Add32(offset, U32(v.Header.Address)),
                                     Data |-> v.Data])])
             ELSE IF t = EoF
             THEN [file |-> ret, err |-> PlainError("ErrInternalError")]
             ELSE IF t = ESA
             THEN IF v.Header.Count # 2
                  THEN [file |-> ret, err |-> ParseError(i, "ErrIncorrectDataLength")]
                  ELSE ParseLoop(rs, i + 1, BigEndian16(v.Data, 1) * 16, ret)
             ELSE IF t = SSA
             THEN IF v.Header.Count # 4
                  THEN [file |-> ret, err |-> ParseError(i, "ErrIncorrectDataLength")]
                  ELSE ParseLoop(rs, i + 1, offset,
                           [ret EXCEPT !.CS = BigEndian16(v.Data, 1),
                                       !.IP = BigEndian16(v.Data, 3)])
             ELSE IF t = ELA
             THEN IF v.Header.Count # 2
                  THEN [file |-> ret, err |-> ParseError(i, "ErrIncorrectDataLength")]
                  ELSE ParseLoop(rs, i + 1, Join16(BigEndian16(v.Data, 1), 0), ret)
             ELSE IF t = SLA
             THEN IF v.Header.Count # 4
                  THEN [file |-> ret, err |-> ParseError(i, "ErrIncorrectDataLength")]
                  ELSE ParseLoop(rs, i + 1, offset,
                           [ret EXCEPT !.EIP = Join16(BigEndian16(v.Data, 1),
                                                      BigEndian16(v.Data, 3))])
             ELSE [file |-> ret, err |-> PlainError("ErrUnknownDataType")]

\* the orders sort.Sort may leave mem in: ascending by Offset, records of
\* equal Offset in any order (the sort is not stable)
SortOrders(mem) ==
    LET n     == Len(mem)
        perms == {p \in [1..n -> 1..n] : \A i, j \in 1..n : i # j => p[i] # p[j]}
    IN  {[i \in 1..n |-> mem[p[i]]] : p \in
            {q \in perms : \A i, j \in 1..n :
                i < j => ~Less32(mem[q[j]].Offset, mem[q[i]].Offset)}}

\* a record is compared by its end, not by its start
RECURSIVE OverlapByEnd(_, _, _)
OverlapByEnd(mem, k, prevoffset) ==
    IF k > Len(mem) THEN FALSE
    ELSE IF ToInt(mem[k].Offset) + Len(mem[k].Data) < prevoffset THEN TRUE
    ELSE OverlapByEnd(mem, k + 1, ToInt(mem[k].Offset) + Len(mem[k].Data))

\* the loop "for _, v := range ret.Memory[1:]" of Parse from index k on:
\* TRUE when it returns ErrSegmentOverlap
RECURSIVE Overlap(_, _, _)
Overlap(mem, k, prevoffset) ==
    IF k > Len(mem) THEN FALSE
    ELSE IF ToInt(mem[k].Offset) < prevoffset THEN TRUE
    ELSE Overlap(mem, k + 1, ToInt(mem[k].Offset) + Len(mem[k].Data))

\* Parse(r) on a reader over text: the File and error it may return, one for
\* each order the sort may produce
Parse(text) ==
    LET recs == parseHexFileRecords(text)
        loop == ParseLoop(recs.rs, 0, 0, MkFile(<<>>))
    IN  IF recs.err # NilError THEN {[file |-> MkFile(<<>>), err |-> recs.err]}
        ELSE IF loop.err # NilError THEN {loop}
        ELSE IF Len(loop.file.Memory) = 0 THEN {loop}
        ELSE {[file |-> [loop.file EXCEPT !.Memory = mem],
               err |-> IF Overlap(mem, 2, ToInt(mem[1].Offset) + Len(mem[1].Data))
                       THEN PlainError("ErrSegmentOverlap")
                       ELSE NilError] : mem \in SortOrders(loop.file.Memory)}

(***************************************************************************)
(* The decode table and the instruction fetch.                             *)
(***************************************************************************)
\* the mnemonics (const block of OpCode); ERR is the last
OpCodes ==
    {"ACALL", "ADD", "ADDC", "AJMP", "ANL", "CJNE", "CLR", "CPL", "DA",
     "DEC", "DIV", "DJNZ", "INC", "JB", "JBC", "JC", "JMP", "JNB",
     "JNC", "JNZ", "JZ", "LCALL", "LJMP", "MOV", "MOVC", "MOVX", "MUL",
     "NOP", "ORL", "POP", "PUSH", "RET", "RETI", "RL", "RLC", "RR",
     "RRC", "SJMP", "SETB", "SUBB", "SWAP", "XCH", "XCHD", "XRL", "ERR"}

\* decodeTable[b+1] is the entry of opcode byte b
decodeTable ==
  <<
    [len |-> 1, op |-> "NOP"], [len |-> 2, op |-> "AJMP"], [len |-> 3, op |-> "LJMP"], [len |-> 1, op |-> "RR"],  \* 0x00
    [len |-> 1, op |-> "INC"], [len |-> 2, op |-> "INC"], [len |-> 1, op |-> "INC"], [len |-> 1, op |-> "INC"],  \* 0x04
    [len |-> 1, op |-> "INC"], [len |-> 1, op |-> "INC"], [len |-> 1, op |-> "INC"], [len |-> 1, op |-> "INC"],  \* 0x08
    [len |-> 1, op |-> "INC"], [len |-> 1, op |-> "INC"], [len |-> 1, op |-> "INC"], [len |-> 1, op |-> "INC"],  \* 0x0C
    [len |-> 3, op |-> "JBC"], [len |-> 2, op |-> "ACALL"], [len |-> 3, op |-> "LCALL"], [len |-> 1, op |-> "RRC"],  \* 0x10
    [len |-> 1, op |-> "DEC"], [len |-> 2, op |-> "DEC"], [len |-> 1, op |-> "DEC"], [len |-> 1, op |-> "DEC"],  \* 0x14
    [len |-> 1, op |-> "DEC"], [len |-> 1, op |-> "DEC"], [len |-> 1, op |-> "DEC"], [len |-> 1, op |-> "DEC"],  \* 0x18
    [len |-> 1, op |-> "DEC"], [len |-> 1, op |-> "DEC"], [len |-> 1, op |-> "DEC"], [len |-> 1, op |-> "DEC"],  \* 0x1C
    [len |-> 3, op |-> "JB"], [len |-> 2, op |-> "AJMP"], [len |-> 1, op |-> "RET"], [len |-> 1, op |-> "RL"],  \* 0x20
    [len |-> 2, op |-> "ADD"], [len |-> 2, op |-> "ADD"], [len |-> 1, op |-> "ADD"], [len |-> 1, op |-> "ADD"],  \* 0x24
    [len |-> 1, op |-> "ADD"], [len |-> 1, op |-> "ADD"], [len |-> 1, op |-> "ADD"], [len |-> 1, op |-> "ADD"],  \* 0x28
    [len |-> 1, op |-> "ADD"], [len |-> 1, op |-> "ADD"], [len |-> 1, op |-> "ADD"], [len |-> 1, op |-> "ADD"],  \* 0x2C
    [len |-> 3, op |-> "JNB"], [len |-> 2, op |-> "ACALL"], [len |-> 1, op |-> "RETI"], [len |-> 1, op |-> "RLC"],  \* 0x30
    [len |-> 2, op |-> "ADDC"], [len |-> 2, op |-> "ADDC"], [len |-> 1, op |-> "ADDC"], [len |-> 1, op |-> "ADDC"],  \* 0x34
    [len |-> 1, op |-> "ADDC"], [len |-> 1, op |-> "ADDC"], [len |-> 1, op |-> "ADDC"], [len |-> 1, op |-> "ADDC"],  \* 0x38
    [len |-> 1, op |-> "ADDC"], [len |-> 1, op |-> "ADDC"], [len |-> 1, op |-> "ADDC"], [len |-> 1, op |-> "ADDC"],  \* 0x3C
    [len |-> 2, op |-> "JC"], [len |-> 2, op |-> "AJMP"], [len |-> 2, op |-> "ORL"], [len |-> 3, op |-> "ORL"],  \* 0x40
    [len |-> 2, op |-> "ORL"], [len |-> 2, op |-> "ORL"], [len |-> 1, op |-> "ORL"], [len |-> 1, op |-> "ORL"],  \* 0x44
    [len |-> 1, op |-> "ORL"], [len |-> 1, op |-> "ORL"], [len |-> 1, op |-> "ORL"], [len |-> 1, op |-> "ORL"],  \* 0x48
    [len |-> 1, op |-> "ORL"], [len |-> 1, op |-> "ORL"], [len |-> 1, op |-> "ORL"], [len |-> 1, op |-> "ORL"],  \* 0x4C
    [len |-> 2, op |-> "JNC"], [len |-> 2, op |-> "ACALL"], [len |-> 2, op |-> "ANL"], [len |-> 3, op |-> "ANL"],  \* 0x50
    [len |-> 2, op |-> "ANL"], [len |-> 2, op |-> "ANL"], [len |-> 1, op |-> "ANL"], [len |-> 1, op |-> "ANL"],  \* 0x54
    [len |-> 1, op |-> "ANL"], [len |-> 1, op |-> "ANL"], [len |-> 1, op |-> "ANL"], [len |-> 1, op |-> "ANL"],  \* 0x58
    [len |-> 1, op |-> "ANL"], [len |-> 1, op |-> "ANL"], [len |-> 1, op |-> "ANL"], [len |-> 1, op |-> "ANL"],  \* 0x5C
    [len |-> 2, op |-> "JZ"], [len |-> 2, op |-> "AJMP"], [len |-> 2, op |-> "XRL"], [len |-> 3, op |-> "XRL"],  \* 0x60
    [len |-> 2, op |-> "XRL"], [len |-> 2, op |-> "XRL"], [len |-> 1, op |-> "XRL"], [len |-> 1, op |-> "XRL"],  \* 0x64
    [len |-> 1, op |-> "XRL"], [len |-> 1, op |-> "XRL"], [len |-> 1, op |-> "XRL"], [len |-> 1, op |-> "XRL"],  \* 0x68
    [len |-> 1, op |-> "XRL"], [len |-> 1, op |-> "XRL"], [len |-> 1, op |-> "XRL"], [len |-> 1, op |-> "XRL"],  \* 0x6C
    [len |-> 2, op |-> "JNZ"], [len |-> 2, op |-> "ACALL"], [len |-> 2, op |-> "ORL"], [len |-> 1, op |-> "JMP"],  \* 0x70
    [len |-> 2, op |-> "MOV"], [len |-> 3, op |-> "MOV"], [len |-> 2, op |-> "MOV"], [len |-> 2, op |-> "MOV"],  \* 0x74
    [len |-> 2, op |-> "MOV"], [len |-> 2, op |-> "MOV"], [len |-> 2, op |-> "MOV"], [len |-> 2, op |-> "MOV"],  \* 0x78
    [len |-> 2, op |-> "MOV"], [len |-> 2, op |-> "MOV"], [len |-> 2, op |-> "MOV"], [len |-> 2, op |-> "MOV"],  \* 0x7C
    [len |-> 2, op |-> "SJMP"], [len |-> 2, op |-> "AJMP"], [len |-> 2, op |-> "ANL"], [len |-> 1, op |-> "MOVC"],  \* 0x80
    [len |-> 1, op |-> "DIV"], [len |-> 3, op |-> "MOV"], [len |-> 2, op |-> "MOV"], [len |-> 2, op |-> "MOV"],  \* 0x84
    [len |-> 2, op |-> "MOV"], [len |-> 2, op |-> "MOV"], [len |-> 2, op |-> "MOV"], [len |-> 2, op |-> "MOV"],  \* 0x88
    [len |-> 2, op |-> "MOV"], [len |-> 2, op |-> "MOV"], [len |-> 2, op |-> "MOV"], [len |-> 2, op |-> "MOV"],  \* 0x8C
    [len |-> 3, op |-> "MOV"], [len |-> 2, op |-> "ACALL"], [len |-> 2, op |-> "MOV"], [len |-> 1, op |-> "MOVC"],  \* 0x90
    [len |-> 2, op |-> "SUBB"], [len |-> 2, op |-> "SUBB"], [len |-> 1, op |-> "SUBB"], [len |-> 1, op |-> "SUBB"],  \* 0x94
    [len |-> 1, op |-> "SUBB"], [len |-> 1, op |-> "SUBB"], [len |-> 1, op |-> "SUBB"], [len |-> 1, op |-> "SUBB"],  \* 0x98
    [len |-> 1, op |-> "SUBB"], [len |-> 1, op |-> "SUBB"], [len |-> 1, op |-> "SUBB"], [len |-> 1, op |-> "SUBB"],  \* 0x9C
    [len |-> 2, op |-> "ORL"], [len |-> 2, op |-> "AJMP"], [len |-> 2, op |-> "MOV"], [len |-> 1, op |-> "INC"],  \* 0xA0
    [len |-> 1, op |-> "MUL"], [len |-> 1, op |-> "ERR"], [len |-> 2, op |-> "MOV"], [len |-> 2, op |-> "MOV"],  \* 0xA4
    [len |-> 2, op |-> "MOV"], [len |-> 2, op |-> "MOV"], [len |-> 2, op |-> "MOV"], [len |-> 2, op |-> "MOV"],  \* 0xA8
    [len |-> 2, op |-> "MOV"], [len |-> 2, op |-> "MOV"], [len |-> 2, op |-> "MOV"], [len |-> 2, op |-> "MOV"],  \* 0xAC
    [len |-> 2, op |-> "ANL"], [len |-> 2, op |-> "ACALL"], [len |-> 2, op |-> "CPL"], [len |-> 1, op |-> "CPL"],  \* 0xB0
    [len |-> 3, op |-> "CJNE"], [len |-> 3, op |-> "CJNE"], [len |-> 3, op |-> "CJNE"], [len |-> 3, op |-> "CJNE"],  \* 0xB4
    [len |-> 3, op |-> "CJNE"], [len |-> 3, op |-> "CJNE"], [len |-> 3, op |-> "CJNE"], [len |-> 3, op |-> "CJNE"],  \* 0xB8
    [len |-> 3, op |-> "CJNE"], [len |-> 3, op |-> "CJNE"], [len |-> 3, op |-> "CJNE"], [len |-> 3, op |-> "CJNE"],  \* 0xBC
    [len |-> 2, op |-> "PUSH"], [len |-> 2, op |-> "AJMP"], [len |-> 2, op |-> "CLR"], [len |-> 1, op |-> "CLR"],  \* 0xC0
    [len |-> 1, op |-> "SWAP"], [len |-> 2, op |-> "XCH"], [len |-> 1, op |-> "XCH"], [len |-> 1, op |-> "XCH"],  \* 0xC4
    [len |-> 1, op |-> "XCH"], [len |-> 1, op |-> "XCH"], [len |-> 1, op |-> "XCH"], [len |-> 1, op |-> "XCH"],  \* 0xC8
    [len |-> 1, op |-> "XCH"], [len |-> 1, op |-> "XCH"], [len |-> 1, op |-> "XCH"], [len |-> 1, op |-> "XCH"],  \* 0xCC
    [len |-> 2, op |-> "POP"], [len |-> 2, op |-> "ACALL"], [len |-> 2, op |-> "SETB"], [len |-> 1, op |-> "SETB"],  \* 0xD0
    [len |-> 1, op |-> "DA"], [len |-> 3, op |-> "DJNZ"], [len |-> 1, op |-> "XCHD"], [len |-> 1, op |-> "XCHD"],  \* 0xD4
    [len |-> 2, op |-> "DJNZ"], [len |-> 2, op |-> "DJNZ"], [len |-> 2, op |-> "DJNZ"], [len |-> 2, op |-> "DJNZ"],  \* 0xD8
    [len |-> 2, op |-> "DJNZ"], [len |-> 2, op |-> "DJNZ"], [len |-> 2, op |-> "DJNZ"], [len |-> 2, op |-> "DJNZ"],  \* 0xDC
    [len |-> 1, op |-> "MOVX"], [len |-> 2, op |-> "AJMP"], [len |-> 1, op |-> "MOVX"], [len |-> 1, op |-> "MOVX"],  \* 0xE0
    [len |-> 1, op |-> "CLR"], [len |-> 2, op |-> "MOV"], [len |-> 1, op |-> "MOV"], [len |-> 1, op |-> "MOV"],  \* 0xE4
    [len |-> 1, op |-> "MOV"], [len |-> 1, op |-> "MOV"], [len |-> 1, op |-> "MOV"], [len |-> 1, op |-> "MOV"],  \* 0xE8
    [len |-> 1, op |-> "MOV"], [len |-> 1, op |-> "MOV"], [len |-> 1, op |-> "MOV"], [len |-> 1, op |-> "MOV"],  \* 0xEC
    [len |-> 1, op |-> "MOVX"], [len |-> 2, op |-> "ACALL"], [len |-> 1, op |-> "MOVX"], [len |-> 1, op |-> "MOVX"],  \* 0xF0
    [len |-> 1, op |-> "CPL"], [len |-> 2, op |-> "MOV"], [len |-> 1, op |-> "MOV"], [len |-> 1, op |-> "MOV"],  \* 0xF4
    [len |-> 1, op |-> "MOV"], [len |-> 1, op |-> "MOV"], [len |-> 1, op |-> "MOV"], [len |-> 1, op |-> "MOV"],  \* 0xF8
    [len |-> 1, op |-> "MOV"], [len |-> 1, op |-> "MOV"], [len |-> 1, op |-> "MOV"], [len |-> 1, op |-> "MOV"]  \* 0xFC
  >>

\* the entry of the byte after the one asked for
LookupNext(b) == decodeTable[((b + 1) % Byte) + 1]

\* d := decodeTable[b[0]]
Lookup(b) == decodeTable[b + 1]

\* the bytes src written over dst from (1-based) position pos on
Overwrite(dst, pos, src) ==
    [k \in 1..Len(dst) |->
        IF k >= pos /\ k < pos + Len(src) THEN src[k - pos + 1] ELSE dst[k]]

\* b := make([]byte, 3)
\* c.ReadAt(b[:1], offset)
\* d := decodeTable[b[0]]
\* if d.len > 1 { c.ReadAt(b[1:d.len-1], offset) }
\* return d.op, b[:d.len], nil
ReadInstruction(c, offset) ==
    LET b0 == <<0, 0, 0>>
        b1 == Overwrite(b0, 1, ReadAt(c, 1, offset).data)
        d  == Lookup(b1[1])
        b2 == IF d.len > 1
              THEN Overwrite(b1, 2, ReadAt(c, (d.len - 1) - 1, offset).data)
              ELSE b1
    IN  [op |-> d.op, data |-> SubSeq(b2, 1, d.len), err |-> "nil"]

\* the mnemonics the switch of DecodeInstruction names; every case is empty
SwitchCases ==
    {"ANL", "CJNE", "CLR", "CPL", "DA", "DEC", "DIV", "DJNZ", "INC",
     "JB", "JBC", "JC", "JMP", "JNB", "JNC", "JNZ", "JZ", "MOV",
     "MOVC", "MOVX", "NOP", "ORL", "RL", "RLC", "RR", "RRC", "SJMP",
     "SETB", "SUBB", "XCHD", "XRL"}

\* switch op { case ANL: ... case XRL: } ; return nil
DecodeInstruction(op, data) ==
    IF op \in SwitchCases THEN "nil" ELSE "nil"

\* func (c *CPU) Step() error { return nil }
Step(a) == [a |-> a, err |-> "nil"]

(***************************************************************************)
(* The state machine: calls on one ALU.                                    *)
(***************************************************************************)
\* an ALU value (a struct literal)
MkALU(ram, sp, dptr, psw, acc, b, pc) ==
    [InternalRAM |-> ram, StackPtr |-> sp, DataPtr |-> dptr, ProgStatus |-> psw,
     Accum |-> acc, BReg |-> b, ProgCount |-> pc]

\* the zero value of InternalRAM, and a RAM whose cells all differ from their neighbours
ZeroRAM == [i \in Bytes |-> 0]
MarkedRAM == [i \in Bytes |-> U8(i * 7 + 3)]

\* no call made yet
NoCall(a) == [op |-> "none", arg |-> 0, ret |-> 0, pre |-> a]

\* calls are made while fewer than MaxOps have been
CanCall == nOps < MaxOps

\* one call: the ALU becomes a2, the call is recorded with the ALU it found
Do(op, arg, ret, a2) ==
    /\ alu' = a2
    /\ prev' = last
    /\ last' = [op |-> op, arg |-> arg, ret |-> ret, pre |-> alu]
    /\ nOps' = nOps + 1
    /\ UNCHANGED <<ProgMem, input>>

\* a File with no records, read with pad byte 0
NoFile == MkFileReader(MkFile(<<>>), 0)

\* the state after construction: an ALU value, a code memory, no call made
InitWith(a, mem) ==
    /\ alu = a
    /\ ProgMem = mem
    /\ input = <<>>
    /\ last = NoCall(a)
    /\ prev = NoCall(a)
    /\ nOps = 0

\* argument values of the calls
PushBytes == {90, 255}
PushWords == {4660, 65280}
CallTargets == {4660, 65535}
StartCounts == {256, 65534}

CallPushByte ==
    /\ CanCall
    /\ \E b \in PushBytes : Do("PushByte", b, 0, PushByte(alu, b))

CallPopByte ==
    /\ CanCall
    /\ LET p == PopByte(alu) IN Do("PopByte", 0, p.ret, p.a)

CallPushWord ==
    /\ CanCall
    /\ \E w \in PushWords : Do("PushWord", w, 0, PushWord(alu, w))

CallPopWord ==
    /\ CanCall
    /\ LET p == PopWord(alu) IN Do("PopWord", 0, p.ret, p.a)

CallInstrLCALL ==
    /\ CanCall
    /\ \E addr \in CallTargets : Do("InstrLCALL", addr, 0, InstrLCALL(alu, addr))

CallInstrRET ==
    /\ CanCall
    /\ Do("InstrRET", 0, 0, InstrRET(alu))

\* the stack primitives and the long call, from every stack pointer
InitStack ==
    \E ram \in {ZeroRAM, MarkedRAM}, sp \in Bytes, pc \in StartCounts :
        InitWith(MkALU(ram, sp, 0, 0, 0, 0, pc), NoFile)

NextStack ==
    \/ CallPushByte
    \/ CallPopByte
    \/ CallPushWord
    \/ CallPopWord
    \/ CallInstrLCALL
    \/ CallInstrRET

SpecStack == InitStack /\ [][NextStack]_vars

\* start addresses around every 2 KiB page boundary
PageEdges == {0, 1, 256, 2045, 2046, 2047}
JumpStarts == {k * 2048 + d : k \in 0..31, d \in PageEdges}
\* page-absolute operands, with and without bits above the low eleven
JumpRels == {0, 1, 291, 2047, 2048, 4660, 65535}

CallInstrAJMP ==
    /\ CanCall
    /\ \E rel \in JumpRels : Do("InstrAJMP", rel, 0, InstrAJMP(alu, rel))

CallInstrLJMP ==
    /\ CanCall
    /\ \E addr \in CallTargets : Do("InstrLJMP", addr, 0, InstrLJMP(alu, addr))

\* the jumps, from both sides of every page boundary
InitJump ==
    \E pc \in JumpStarts : InitWith(MkALU(ZeroRAM, 7, 0, 0, 0, 0, pc), NoFile)

NextJump ==
    \/ CallInstrAJMP
    \/ CallInstrLJMP

SpecJump == InitJump /\ [][NextJump]_vars

\* operand values at the edges of the multiplication's cases
MulSamples == {0, 1, 15, 16, 17, 200, 255}

CallInstrMUL ==
    /\ CanCall
    /\ Do("InstrMUL", 0, 0, InstrMUL(alu))

\* the multiplication: every pair of operands, and every status word
InitMul ==
    \/ \E psw \in {0, 255}, acc \in Bytes, b \in Bytes :
            InitWith(MkALU(ZeroRAM, 7, 0, psw, acc, b, 0), NoFile)
    \/ \E psw \in Bytes, acc \in MulSamples, b \in MulSamples :
            InitWith(MkALU(ZeroRAM, 7, 0, psw, acc, b, 0), NoFile)

NextMul == CallInstrMUL

SpecMul == InitMul /\ [][NextMul]_vars

\* register indexes R0..R7
RegIndexes == 0..7
ExchangeAccums == {90, 165}

CallRegAddr ==
    /\ CanCall
    /\ \E n \in RegIndexes : Do("regAddr", n, regAddr(alu, n), alu)

CallInstrXCHDir ==
    /\ CanCall
    /\ \E n \in RegIndexes : Do("InstrXCHDir", n, 0, InstrXCHDir(alu, n))

\* register addressing, under every status word
InitReg ==
    \E psw \in Bytes, acc \in ExchangeAccums :
        InitWith(MkALU(MarkedRAM, 7, 0, psw, acc, 0, 0), NoFile)

NextReg ==
    \/ CallRegAddr
    \/ CallInstrXCHDir

SpecReg == InitReg /\ [][NextReg]_vars

\* a code image with one record at address 0: opcode byte s, then three
\* operand bytes that differ from it and from each other
CodeImage(s) ==
    MkFile(<< [Offset |-> 0, Data |-> <<s, U8(s + 17), U8(s + 34), U8(s + 51)>>] >>)

\* a code image with a hole at address 2: LCALL 0x34.. cut short, then 0x56, 0xA5
SparseImage ==
    MkFile(<< [Offset |-> 0, Data |-> <<18, 52>>], [Offset |-> 3, Data |-> <<86, 165>>] >>)

CodeImages == {CodeImage(s) : s \in Bytes} \cup {SparseImage}
PadBytes == {0, 255}
FetchCounts == {0, 4}

CallReadInstruction ==
    /\ CanCall
    /\ \E offset \in 0..MaxOffset :
           Do("ReadInstruction", offset, ReadInstruction(ProgMem, offset), alu)

\* the instruction just read is decoded
CallDecodeInstruction ==
    /\ CanCall
    /\ last.op = "ReadInstruction"
    /\ Do("DecodeInstruction", last.ret.op,
          DecodeInstruction(last.ret.op, last.ret.data), alu)

CallStep ==
    /\ CanCall
    /\ LET r == Step(alu) IN Do("Step", 0, r.err, r.a)

\* a CPU over every code image: fetch, decode, step
InitFetch ==
    \E f \in CodeImages, pad \in PadBytes, pc \in FetchCounts :
        InitWith(MkALU(MarkedRAM, 7, 0, 0, 0, 0, pc), MkFileReader(f, pad))

NextFetch ==
    \/ CallReadInstruction
    \/ CallDecodeInstruction
    \/ CallStep

SpecFetch == InitFetch /\ [][NextFetch]_vars

\* accumulator values of every parity and nibble pattern
AccumSamples == {0, 1, 3, 90, 165, 240, 255}
\* status words: clear, Parity set, register bank 3, both
StatusSamples == {0, 1, 24, 25}
\* direct addresses: cell 0 (bank 0, R0) and cell 4, which MarkedRAM fills
\* with 0x03 (two bits set) and 0x1F (five bits set)
DirectLocs == {0, 4}

CallInstrSWAP ==
    /\ CanCall
    /\ Do("InstrSWAP", 0, 0, InstrSWAP(alu))

CallInstrXCHInd ==
    /\ CanCall
    /\ \E R1 \in BOOLEAN : Do("InstrXCHInd", R1, 0, InstrXCHInd(alu, R1))

CallInstrXCHImmed ==
    /\ CanCall
    /\ \E loc \in DirectLocs : Do("InstrXCHImmed", loc, 0, InstrXCHImmed(alu, loc))

\* the instructions that write the accumulator
InitAccum ==
    \E psw \in StatusSamples, acc \in AccumSamples, b \in {2, 200} :
        InitWith(MkALU(MarkedRAM, 7, 0, psw, acc, b, 256), NoFile)

NextAccum ==
    \/ CallInstrSWAP
    \/ CallInstrMUL
    \/ CallInstrXCHInd
    \/ CallInstrXCHDir
    \/ CallInstrXCHImmed

SpecAccum == InitAccum /\ [][NextAccum]_vars

CallInstrPUSH ==
    /\ CanCall
    /\ \E loc \in DirectLocs : Do("InstrPUSH", loc, 0, InstrPUSH(alu, loc))

CallInstrPOP ==
    /\ CanCall
    /\ \E loc \in DirectLocs : Do("InstrPOP", loc, 0, InstrPOP(alu, loc))

\* page-absolute operands of a call, with and without bits above the low eleven
CallRels == {0, 2047, 4660, 65535}

CallInstrACALL ==
    /\ CanCall
    /\ \E rel \in CallRels : Do("InstrACALL", rel, 0, InstrACALL(alu, rel))

CallInstrRETI ==
    /\ CanCall
    /\ Do("InstrRETI", 0, 0, InstrRETI(alu))

\* every method of the ALU, from a stack pointer in the middle and at the top
InitFrame ==
    \E sp \in {7, 255}, pc \in StartCounts :
        InitWith(MkALU(MarkedRAM, sp, 0, 24, 90, 200, pc), NoFile)

NextFrame ==
    \/ CallPushByte
    \/ CallPopByte
    \/ CallPushWord
    \/ CallPopWord
    \/ CallInstrPUSH
    \/ CallInstrPOP
    \/ CallInstrSWAP
    \/ CallInstrMUL
    \/ CallInstrXCHInd
    \/ CallInstrXCHDir
    \/ CallInstrXCHImmed
    \/ CallInstrACALL
    \/ CallInstrAJMP
    \/ CallInstrLCALL
    \/ CallInstrLJMP
    \/ CallInstrRET
    \/ CallInstrRETI

SpecFrame == InitFrame /\ [][NextFrame]_vars

\* stack pointers in the middle and where the two pushes of a word wrap
CallStacks == {7, 253, 254, 255}

\* the absolute call and the returns, from both sides of every page boundary
InitCall ==
    \E sp \in CallStacks, pc \in JumpStarts :
        InitWith(MkALU(MarkedRAM, sp, 0, 0, 0, 0, pc), NoFile)

NextCall ==
    \/ CallInstrACALL
    \/ CallInstrRET
    \/ CallInstrRETI

SpecCall == InitCall /\ [][NextCall]_vars

\* code images below 2^31, across it, and at the top of the 32-bit address
\* space (0x7FFFFFFF is 2147483647, 0xFFFFFFFE is held as -2); each is sorted
\* and no two of its records share an address
GappedImage ==
    MkFile(<< [Offset |-> 0, Data |-> <<18>>], [Offset |-> 1, Data |-> <<>>],
              [Offset |-> 2, Data |-> <<52, 86>>] >>)
MiddleImage == MkFile(<< [Offset |-> 2147483647, Data |-> <<33, 34>>] >>)
TopImage == MkFile(<< [Offset |-> 1, Data |-> <<17>>], [Offset |-> -2, Data |-> <<119>>] >>)
EndImage == MkFile(<< [Offset |-> -2, Data |-> <<119, 136>>] >>)
MemoryImages == {SparseImage, GappedImage, MiddleImage, TopImage, EndImage}

\* addresses at the records of the images and next to them
RetrieveOffsets == {0, 1, 3, 2147483647, -3, -2}

CallRetrieve ==
    /\ CanCall
    /\ \E offset \in RetrieveOffsets, n \in 0..MaxLen :
           Do("Retrieve", <<offset, n>>,
              Retrieve(ProgMem.File, offset, n, ProgMem.Pad), alu)

CallGetByte ==
    /\ CanCall
    /\ \E addr \in RetrieveOffsets \cup {2, -1} :
           Do("GetByte", <<addr, 1>>, GetByte(ProgMem.File, addr, ProgMem.Pad), alu)

\* reads of a parsed File
InitFile ==
    \E f \in MemoryImages, pad \in PadBytes :
        InitWith(MkALU(ZeroRAM, 7, 0, 0, 0, 0, 0), MkFileReader(f, pad))

NextFile ==
    \/ CallRetrieve
    \/ CallGetByte

SpecFile == InitFile /\ [][NextFile]_vars

\* the two hexadecimal digits of byte b, and those of the bytes of b
HexDigit(n) == IF n < 10 THEN 48 + n ELSE 55 + n
RECURSIVE HexText(_)
HexText(b) ==
    IF b = <<>> THEN <<>>
    ELSE <<HexDigit(b[1] \div 16), HexDigit(b[1] % 16)>> \o HexText(Tail(b))

\* bytes b followed by the checksum byte that makes their sum 0 modulo 256
WithSum(b) == Append(b, U8(Byte - SumBytes(b)))

\* a line of the input: its characters, whether "\r" precedes its "\n", and,
\* when it spells a record, that record
RecordLine(count, address, type, data) ==
    [Valid |-> TRUE,
     Rec   |-> MkRecord(count, address, type, data),
     Chars |-> <<58>> \o HexText(WithSum(<<count, address \div Byte, address % Byte, type>>
                                          \o data)),
     CR    |-> FALSE]
DamagedLine(chars) ==
    [Valid |-> FALSE, Rec |-> ZeroRecord, Chars |-> chars, CR |-> FALSE]

\* ":00000001FF"
EOFLine == RecordLine(0, 0, EoF, <<>>)

\* records of every type: data at 0x0000-0x0001, at 0x0001, at 0x0010 and an
\* empty one at 0x0001; segment base 0x0001 (times 16) and linear base
\* 0x0001 (times 65536); start addresses; an ESA and an SLA of the wrong
\* length; a record of type 6
RecordLines ==
    {EOFLine,
     RecordLine(2, 0, Data, <<18, 52>>),
     RecordLine(1, 1, Data, <<86>>),
     RecordLine(1, 16, Data, <<120>>),
     RecordLine(0, 1, Data, <<>>),
     RecordLine(2, 0, ESA, <<0, 1>>),
     RecordLine(2, 0, ELA, <<0, 1>>),
     RecordLine(4, 0, SSA, <<18, 52, 86, 120>>),
     RecordLine(1, 0, ESA, <<1>>),
     RecordLine(2, 0, SLA, <<0, 1>>),
     RecordLine(0, 0, 6, <<>>)}

\* lines that spell no record: empty, ten characters, no colon, an odd
\* number of digits, a character that is no digit, a wrong checksum, a data
\* byte more and a data byte less than Count says
DamagedLines ==
    {DamagedLine(<<>>),
     DamagedLine(SubSeq(EOFLine.Chars, 1, 10)),
     DamagedLine(Tail(EOFLine.Chars) \o <<48>>),
     DamagedLine(EOFLine.Chars \o <<48>>),
     DamagedLine(<<58>> \o HexText(<<0, 0, 0>>) \o <<71, 71, 48, 48>>),
     DamagedLine(<<58>> \o HexText(<<0, 0, 0, 1, 254>>)),
     DamagedLine(<<58>> \o HexText(WithSum(<<0, 0, 0, 0, 170>>))),
     DamagedLine(<<58>> \o HexText(WithSum(<<2, 0, 0, 0, 170>>)))}

\* the lines of the streams whose lines may be damaged
ScanLineSet ==
    {EOFLine, [EOFLine EXCEPT !.CR = TRUE], RecordLine(2, 0, Data, <<18, 52>>)}
        \cup DamagedLines

\* the stream: each line, "\r" after it when it has one, and "\n"; the last
\* "\n" is left out when final is FALSE
RECURSIVE Text(_, _)
Text(lines, final) ==
    IF lines = <<>> THEN <<>>
    ELSE lines[1].Chars
           \o (IF lines[1].CR THEN <<13>> ELSE <<>>)
           \o (IF Len(lines) = 1 /\ ~final THEN <<>> ELSE <<10>>)
           \o Text(Tail(lines), final)

\* the stream is written before it is parsed
CanWrite == Len(input) < MaxLines /\ nOps = 0

AddRecordLine ==
    /\ CanWrite
    /\ \E l \in RecordLines : input' = Append(input, l)
    /\ UNCHANGED <<alu, ProgMem, last, prev, nOps>>

AddScanLine ==
    /\ CanWrite
    /\ \E l \in ScanLineSet : input' = Append(input, l)
    /\ UNCHANGED <<alu, ProgMem, last, prev, nOps>>

\* Parse reads the stream, which ends with or without a final "\n" (a stream
\* that ends in an empty line ends with the "\n" of that line)
CallParse ==
    /\ CanCall
    /\ nOps = 0
    /\ \E final \in BOOLEAN :
          /\ final \/ (input # <<>> /\ input[Len(input)].Chars # <<>>)
          /\ \E r \in Parse(Text(input, final)) : Do("Parse", final, r, alu)

\* streams of records
InitParse == InitWith(MkALU(ZeroRAM, 7, 0, 0, 0, 0, 0), NoFile)

NextParse ==
    \/ AddRecordLine
    \/ CallParse

SpecParse == InitParse /\ [][NextParse]_vars

\* streams with damaged lines
InitLines == InitWith(MkALU(ZeroRAM, 7, 0, 0, 0, 0, 0), NoFile)

NextLines ==
    \/ AddScanLine
    \/ CallParse

SpecLines == InitLines /\ [][NextLines]_vars

\* records that set a base and records that use it: data at 0x0010 and at
\* 0xFFFE, segment bases 0x0001 and 0xFFFF, linear bases 0x0001 and 0x7FFF
BaseLines ==
    {EOFLine,
     RecordLine(1, 16, Data, <<120>>),
     RecordLine(1, 65534, Data, <<154>>),
     RecordLine(2, 0, ESA, <<0, 1>>),
     RecordLine(2, 0, ESA, <<255, 255>>),
     RecordLine(2, 0, ELA, <<0, 1>>),
     RecordLine(2, 0, ELA, <<127, 255>>)}

AddBaseLine ==
    /\ Len(input) < MaxRecords
    /\ nOps = 0
    /\ \E l \in BaseLines : input' = Append(input, l)
    /\ UNCHANGED <<alu, ProgMem, last, prev, nOps>>

\* streams of base and data records
InitBase == InitWith(MkALU(ZeroRAM, 7, 0, 0, 0, 0, 0), NoFile)

NextBase ==
    \/ AddBaseLine
    \/ CallParse

SpecBase == InitBase /\ [][NextBase]_vars

\* one call on the FileReader: it becomes fr2, the call is recorded with the
\* reader it found
DoOn(op, arg, ret, fr2) ==
    /\ ProgMem' = fr2
    /\ prev' = last
    /\ last' = [op |-> op, arg |-> arg, ret |-> ret, pre |-> ProgMem]
    /\ nOps' = nOps + 1
    /\ UNCHANGED <<alu, input>>

\* no call made on the reader yet: nothing read, no error
NoRead(fr) ==
    [op |-> "none", arg |-> 0, ret |-> [data |-> <<>>, n |-> 0, err |-> "nil"],
     pre |-> fr]

\* the state after construction of a reader: no call made
InitOn(fr) ==
    /\ alu = MkALU(ZeroRAM, 7, 0, 0, 0, 0, 0)
    /\ ProgMem = fr
    /\ input = <<>>
    /\ last = NoRead(fr)
    /\ prev = NoRead(fr)
    /\ nOps = 0

\* files of size 0, 5 and 4, the last with an empty record and both with a gap
ReaderImages == {MkFile(<<>>), SparseImage, GappedImage}
\* offsets inside the files, at their end and past it; -1 before the start
ReadAtOffsets == {0, 2, 5, 7}
SeekOffsets == {-1, 0, 2, 7}
\* the whence values 0, 1, 2 and one the switch does not know
Whences == 0..3

CallRead ==
    /\ CanCall
    /\ \E n \in 0..MaxLen :
          LET r == Read(ProgMem, n)
          IN  DoOn("Read", n, [data |-> r.data, n |-> r.n, err |-> r.err], r.fr)

CallReadAt ==
    /\ CanCall
    /\ \E n \in 0..MaxLen, off \in ReadAtOffsets :
          DoOn("ReadAt", <<n, off>>, ReadAt(ProgMem, n, off), ProgMem)

CallSeek ==
    /\ CanCall
    /\ \E offset \in SeekOffsets, whence \in Whences :
          LET r == Seek(ProgMem, offset, whence)
          IN  DoOn("Seek", <<offset, whence>>, [ret |-> r.ret, err |-> r.err], r.fr)

\* a reader at Offset 0, then any calls of Seek, Read and ReadAt
InitReader ==
    \E f \in ReaderImages, pad \in PadBytes :
        InitOn(MkFileReader(f, pad))

NextReader ==
    \/ CallRead
    \/ CallReadAt
    \/ CallSeek

SpecReader == InitReader /\ [][NextReader]_vars

\* offsets a stream is read from: the start, inside, past the end
StartOffsets == {0, 2, 7}

\* the consumer of a stream reads until io.EOF is returned
Reading == last.ret.err # "EOF"

\* a Read with a non-empty buffer
StreamRead ==
    /\ Reading
    /\ \E n \in 1..MaxLen :
          LET r == Read(ProgMem, n)
          IN  DoOn("Read", n, [data |-> r.data, n |-> r.n, err |-> r.err], r.fr)

\* a Read with an empty buffer
StreamReadEmpty ==
    /\ Reading
    /\ CanCall
    /\ LET r == Read(ProgMem, 0)
       IN  DoOn("Read", 0, [data |-> r.data, n |-> r.n, err |-> r.err], r.fr)

\* a reader at a non-negative Offset, read until io.EOF
InitStream ==
    \E f \in ReaderImages, pad \in PadBytes, o \in StartOffsets :
        InitOn([MkFileReader(f, pad) EXCEPT !.Offset = o])

NextStream ==
    \/ StreamRead
    \/ StreamReadEmpty

\* the consumer keeps reading with a non-empty buffer until io.EOF; every
\* StreamRead counts in nOps
SpecStream == InitStream /\ [][NextStream]_vars /\ WF_nOps(StreamRead)

(***************************************************************************)
(* Claims about the stack primitives and the long call.                    *)
(***************************************************************************)
\* C2: for every byte b and every StackPtr 0..255 (0xFF included, where the
\* increment wraps), PushByte(b) immediately followed by PopByte returns b and
\* leaves StackPtr at its value before the push.
C2_PushPopByte ==
    (prev.op = "PushByte" /\ last.op = "PopByte")
        => /\ last.ret = prev.arg
           /\ alu.StackPtr = prev.pre.StackPtr

\* C2's case: a push at StackPtr 0xFF (the increment wraps to 0), then the pop
C2_Witness ==
    /\ prev.op = "PushByte" /\ last.op = "PopByte"
    /\ prev.pre.StackPtr = 255
    /\ last.pre.StackPtr = 0
    /\ last.ret = 90
    /\ alu.StackPtr = 255

\* C3: for every word w and every StackPtr 0..255 (0xFE and 0xFF included),
\* PushWord(w) stores the low byte of w at StackPtr+1 and the high byte at
\* StackPtr+2 (mod 256); PushWord(w) immediately followed by PopWord returns w
\* and restores StackPtr to its value before the push.
C3_PushPopWord ==
    /\ last.op = "PushWord"
        => /\ alu.InternalRAM[(last.pre.StackPtr + 1) % 256] = last.arg % 256
           /\ alu.InternalRAM[(last.pre.StackPtr + 2) % 256] = last.arg \div 256
    /\ (prev.op = "PushWord" /\ last.op = "PopWord")
        => /\ last.ret = prev.arg
           /\ alu.StackPtr = prev.pre.StackPtr

\* C3's case: a word pushed at StackPtr 0xFF (low byte at 0x00, high byte at
\* 0x01), then popped
C3_Witness ==
    /\ prev.op = "PushWord" /\ last.op = "PopWord"
    /\ prev.pre.StackPtr = 255
    /\ prev.arg = 4660
    /\ alu.InternalRAM[0] = 52 /\ alu.InternalRAM[1] = 18
    /\ last.ret = 4660
    /\ alu.StackPtr = 255

\* C4: for every ProgCount pc, target addr and StackPtr, InstrLCALL(addr) sets
\* ProgCount to addr and pushes (pc+3) mod 2^16, low byte at the lower stack
\* address; an InstrRET executed next sets ProgCount to (pc+3) mod 2^16 and
\* restores StackPtr to its value before the call.
C4_LCallRet ==
    /\ last.op = "InstrLCALL"
        => /\ alu.ProgCount = last.arg
           /\ alu.InternalRAM[(last.pre.StackPtr + 1) % 256]
                = ((last.pre.ProgCount + 3) % 65536) % 256
           /\ alu.InternalRAM[(last.pre.StackPtr + 2) % 256]
                = ((last.pre.ProgCount + 3) % 65536) \div 256
    /\ (prev.op = "InstrLCALL" /\ last.op = "InstrRET")
        => /\ alu.ProgCount = (prev.pre.ProgCount + 3) % 65536
           /\ alu.StackPtr = prev.pre.StackPtr

\* C4's case: LCALL 0x1234 at ProgCount 0x0100, then RET back to 0x0103
C4_Witness ==
    /\ prev.op = "InstrLCALL" /\ last.op = "InstrRET"
    /\ prev.pre.ProgCount = 256 /\ prev.arg = 4660
    /\ last.pre.ProgCount = 4660
    /\ alu.ProgCount = 259
    /\ alu.StackPtr = prev.pre.StackPtr

(***************************************************************************)
(* Claims about the jumps, the multiplication and register addressing.     *)
(***************************************************************************)
\* C5: for every ProgCount pc (0x07FE, 0x07FF, 0xFFFE and 0xFFFF included) and
\* every 16-bit rel, InstrAJMP(rel) sets ProgCount to
\* (((pc+2) mod 2^16) & 0xF800) | (rel & 0x07FF).
C5_AJmpTarget ==
    last.op = "InstrAJMP"
        => alu.ProgCount
             = (((last.pre.ProgCount + 2) % 65536) \div 2048) * 2048 + (last.arg % 2048)

\* C5's case: AJMP with offset 0 at 0x07FE lands on 0x0800, the next page
C5_Witness ==
    /\ last.op = "InstrAJMP"
    /\ last.pre.ProgCount = 2046
    /\ last.arg = 0
    /\ alu.ProgCount = 2048

\* C6: for every Accum and BReg, after InstrMUL BReg holds the high byte and
\* Accum the low byte of the 16-bit product of the values before the call.
C6_MulProduct ==
    last.op = "InstrMUL"
        => /\ alu.Accum = (last.pre.Accum * last.pre.BReg) % 256
           /\ alu.BReg = (last.pre.Accum * last.pre.BReg) \div 256

\* C7: for every Accum, BReg and prior ProgStatus, after InstrMUL the Carry bit
\* is 0 and the Overflow bit is 1 exactly when the product of the values before
\* the call is greater than 255.
C7_MulFlags ==
    last.op = "InstrMUL"
        => /\ (alu.ProgStatus \div 128) % 2 = 0
           /\ ((alu.ProgStatus \div 4) % 2 = 1)
                <=> (last.pre.Accum * last.pre.BReg > 255)

\* C7's case: 0xC8 * 0xC8 with Carry set and Overflow clear before the call
C7_Witness ==
    /\ last.op = "InstrMUL"
    /\ last.pre.Accum = 200 /\ last.pre.BReg = 200
    /\ last.pre.ProgStatus = 128
    /\ alu.ProgStatus = 4

\* C8: for every ProgStatus and every register index n in 0..7 the
\* register-address helper returns ((ProgStatus>>3)&3)*8 + n, and
\* InstrXCHDir(n) exchanges Accum with InternalRAM[bankBase+n].
C8_RegAddr ==
    LET bankBase == ((last.pre.ProgStatus \div 8) % 4) * 8
    IN  /\ last.op = "regAddr" => last.ret = bankBase + last.arg
        /\ last.op = "InstrXCHDir"
            => /\ alu.Accum = last.pre.InternalRAM[bankBase + last.arg]
               /\ alu.InternalRAM[bankBase + last.arg] = last.pre.Accum

(***************************************************************************)
(* Claims about the decode table, the fetch and the dispatch.              *)
(***************************************************************************)
\* the byte of code memory fr at address addr: the data byte of the record
\* that covers addr, the pad byte where none does
MemByte(fr, addr) ==
    LET covers == {k \in 1..Len(fr.File.Memory) :
                     /\ fr.File.Memory[k].Offset <= addr
                     /\ addr < fr.File.Memory[k].Offset + Len(fr.File.Memory[k].Data)}
    IN  IF covers = {} THEN fr.Pad
        ELSE LET k == CHOOSE k \in covers : TRUE
             IN  fr.File.Memory[k].Data[addr - fr.File.Memory[k].Offset + 1]

\* C1: for every opcode byte 0..255 the decode table yields an entry whose
\* length is 1, 2 or 3; opcode 0xA5 maps to ERR and no other opcode does.
\* Stated of the entry every fetch takes from the table for the byte it read.
C1_DecodeTable ==
    last.op = "ReadInstruction"
        => /\ Len(last.ret.data) \in {1, 2, 3}
           /\ last.ret.op \in OpCodes
           /\ (last.ret.op = "ERR") <=> (MemByte(ProgMem, last.arg) = 165)

\* C1's case: the fetch of opcode byte 0xA5 yields ERR with length 1
C1_Witness ==
    /\ last.op = "ReadInstruction"
    /\ MemByte(ProgMem, last.arg) = 165
    /\ last.ret.op = "ERR"
    /\ Len(last.ret.data) = 1

\* C9: dispatching opcode 0xA5 with Step returns the unknown-opcode error and
\* leaves every Register File field unchanged.
C9_UnknownOpcode ==
    (last.op = "Step" /\ MemByte(ProgMem, last.pre.ProgCount) = 165)
        => /\ last.ret = "ErrUnknownOpCode"
           /\ alu = last.pre

\* C10: for every code memory and offset, ReadInstruction returns the mnemonic
\* and length the decode table gives for the byte at offset, and the bytes of
\* code memory at offset, offset+1, ..., offset+length-1.
C10_ReadInstruction ==
    last.op = "ReadInstruction"
        => LET d == decodeTable[MemByte(ProgMem, last.arg) + 1]
           IN  /\ last.ret.op = d.op
               /\ Len(last.ret.data) = d.len
               /\ \A i \in 1..d.len :
                      last.ret.data[i] = MemByte(ProgMem, last.arg + i - 1)

(***************************************************************************)
(* Claims about Step.                                                      *)
(***************************************************************************)
\* the mnemonics that transfer control (they load ProgCount themselves)
ControlTransfers ==
    {"ACALL", "AJMP", "CJNE", "DJNZ", "JB", "JBC", "JC", "JMP", "JNB", "JNC",
     "JNZ", "JZ", "LCALL", "LJMP", "RET", "RETI", "SJMP"}

\* the decode-table entry of the instruction at ProgCount of ALU a
EntryAt(a) == decodeTable[MemByte(ProgMem, a.ProgCount) + 1]

\* the instruction at ProgCount of ALU a runs on to the next one
StraightLine(a) == EntryAt(a).op \notin (ControlTransfers \cup {"ERR"})

RECURSIVE BitCount(_)
BitCount(x) == IF x = 0 THEN 0 ELSE (x % 2) + BitCount(x \div 2)

\* the instructions that write the accumulator
AccumWriters ==
    {"InstrMUL", "InstrSWAP", "InstrXCHInd", "InstrXCHDir", "InstrXCHImmed"}

ControlOps ==
    {"InstrACALL", "InstrAJMP", "InstrLCALL", "InstrLJMP", "InstrRET", "InstrRETI"}

\* the operations that may not
FrameOps ==
    {"PushByte", "PopByte", "PushWord", "PopWord", "InstrPUSH", "InstrPOP",
     "InstrSWAP", "InstrMUL", "InstrXCHInd", "InstrXCHDir", "InstrXCHImmed"}

\* C13: ProgCount is changed only by the control-transfer operations: each of
\* PushByte, PopByte, PushWord, PopWord, InstrPUSH, InstrPOP, InstrSWAP,
\* InstrMUL and the InstrXCH* operations leaves ProgCount as it was, from any
\* state.
C13_ProgCountFrame ==
    /\ last.op \in FrameOps => alu.ProgCount = last.pre.ProgCount
    /\ alu.ProgCount # last.pre.ProgCount => last.op \in ControlOps

\* C13's case: at ProgCount 0xFFFE a word is pushed at StackPtr 0xFF, then
\* InstrPOP takes its high byte into cell 4; ProgCount is still 0xFFFE
C13_Witness ==
    /\ prev.op = "PushWord" /\ prev.arg = 4660 /\ prev.pre.StackPtr = 255
    /\ last.op = "InstrPOP" /\ last.arg = 4
    /\ alu.InternalRAM[4] = 18
    /\ alu.StackPtr = 0
    /\ last.pre.ProgCount = 65534
    /\ alu.ProgCount = 65534

\* C19: for every ProgCount pc, every 16-bit rel and every StackPtr,
\* InstrACALL(rel) pushes the address of the following instruction,
\* (pc+2) mod 2^16, as a word (low byte at the lower stack address) and sets
\* ProgCount to (((pc+2) mod 2^16) & 0xF800) | (rel & 0x07FF); an InstrRET or
\* InstrRETI executed next sets ProgCount to (pc+2) mod 2^16 and restores
\* StackPtr.
C19_ACallRet ==
    /\ last.op = "InstrACALL"
        => LET next == (last.pre.ProgCount + 2) % 65536
           IN  /\ alu.InternalRAM[(last.pre.StackPtr + 1) % 256] = next % 256
               /\ alu.InternalRAM[(last.pre.StackPtr + 2) % 256] = next \div 256
               /\ alu.StackPtr = (last.pre.StackPtr + 2) % 256
               /\ alu.ProgCount = (next \div 2048) * 2048 + (last.arg % 2048)
    /\ (prev.op = "InstrACALL" /\ last.op \in {"InstrRET", "InstrRETI"})
        => /\ alu.ProgCount = (prev.pre.ProgCount + 2) % 65536
           /\ alu.StackPtr = prev.pre.StackPtr

\* C19's case: ACALL 0xFFFF at 0x07FE with StackPtr 0xFF calls 0x0FFF in the
\* next page, and RETI comes back to 0x0800 with StackPtr 0xFF
C19_Witness ==
    /\ prev.op = "InstrACALL" /\ last.op = "InstrRETI"
    /\ prev.pre.ProgCount = 2046 /\ prev.arg = 65535
    /\ prev.pre.StackPtr = 255
    /\ last.pre.ProgCount = 4095
    /\ last.pre.StackPtr = 1
    /\ alu.ProgCount = 2048
    /\ alu.StackPtr = 255

\* C20: for every Accum value A, InstrSWAP sets Accum to the byte with its
\* high and low nibbles exchanged, ((A >> 4) | (A << 4)) mod 256, so InstrSWAP
\* applied twice restores the original Accum.
C20_SwapNibbles ==
    /\ last.op = "InstrSWAP"
        => alu.Accum = (last.pre.Accum \div 16) + (last.pre.Accum % 16) * 16
    /\ (prev.op = "InstrSWAP" /\ last.op = "InstrSWAP")
        => alu.Accum = prev.pre.Accum

(***************************************************************************)
(* Claims about the Intel HEX parser and the parsed File.                  *)
(***************************************************************************)
\* line l spells a record of type t
IsRecord(l, t) == l.Valid /\ l.Rec.Header.Type = t

\* C14: Parse returns an error for an input with no records, for an input
\* whose last record is not of type EoF, and for an input in which an EoF
\* record appears on a line before the last; an input of exactly one valid
\* EOF record is accepted with a nil error and an empty Memory list.
C14_ParseEOF ==
    last.op = "Parse"
        => /\ Len(input) = 0 => last.ret.err # NilError
           /\ (Len(input) > 0 /\ ~IsRecord(input[Len(input)], EoF))
                => last.ret.err # NilError
           /\ (\E k \in 1..(Len(input) - 1) : IsRecord(input[k], EoF))
                => last.ret.err # NilError
           /\ (Len(input) = 1 /\ IsRecord(input[1], EoF))
                => /\ last.ret.err = NilError
                   /\ last.ret.file.Memory = <<>>

\* C14's case: an EOF record, a data record and the final EOF record
C14_Witness ==
    /\ last.op = "Parse"
    /\ Len(input) = 3
    /\ input[1] = EOFLine
    /\ IsRecord(input[2], Data)
    /\ input[3] = EOFLine
    /\ last.ret.err.Err = "ErrUnexpectedEOF"

\* C15: if any line of the input is shorter than 11 characters (an empty
\* line after an otherwise valid final EOF record included), Parse returns a
\* non-nil error, whatever the other lines contain.
C15_ShortLine ==
    (last.op = "Parse" /\ \E k \in 1..Len(input) : Len(input[k].Chars) < 11)
        => last.ret.err # NilError

\* C15's case: ":00000001FF\n\n", a valid EOF record and then an empty line
C15_Witness ==
    /\ last.op = "Parse"
    /\ last.arg = TRUE
    /\ Len(input) = 2
    /\ input[1] = EOFLine
    /\ input[2].Chars = <<>>
    /\ last.ret.err = ParseError(2, "ErrInsufficentRecordLength")

\* the base address in force at line k of the input: 16 times the value of
\* the last ESA record before it, 65536 times that of the last ELA record, 0
\* when there is neither
BaseAt(k) ==
    LET bases == {j \in 1..(k - 1) :
                    /\ IsRecord(input[j], ESA) \/ IsRecord(input[j], ELA)
                    /\ input[j].Rec.Header.Count = 2}
    IN  IF bases = {} THEN 0
        ELSE LET j == CHOOSE j \in bases : \A m \in bases : m <= j
                 v == input[j].Rec.Data[1] * 256 + input[j].Rec.Data[2]
             IN  IF IsRecord(input[j], ESA) THEN v * 16 ELSE v * 65536

\* the addresses the Data record on line k covers
Covered(k) ==
    {BaseAt(k) + input[k].Rec.Header.Address + d :
        d \in 0..(Len(input[k].Rec.Data) - 1)}

\* two Data records of the input cover a common address
InputOverlap ==
    \E j, k \in 1..Len(input) :
        /\ j < k
        /\ IsRecord(input[j], Data) /\ IsRecord(input[k], Data)
        /\ Covered(j) \cap Covered(k) # {}

\* mem is sorted by ascending Offset and no two of its records share an address
SortedDisjoint(mem) ==
    \A i, j \in 1..Len(mem) :
        i < j => /\ mem[i].Offset <= mem[j].Offset
                 /\ {mem[i].Offset + d : d \in 0..(Len(mem[i].Data) - 1)}
                      \cap {mem[j].Offset + d : d \in 0..(Len(mem[j].Data) - 1)} = {}

\* every line spells a record of a known type, the only EoF record is the
\* last line, and the ESA, SSA, ELA and SLA records have the data length of
\* their type
CleanInput ==
    /\ Len(input) > 0
    /\ \A k \in 1..Len(input) :
          /\ input[k].Valid
          /\ input[k].Rec.Header.Type \in {Data, EoF, ESA, SSA, ELA, SLA}
          /\ IsRecord(input[k], EoF) <=> k = Len(input)
          /\ input[k].Rec.Header.Type \in {ESA, ELA} => input[k].Rec.Header.Count = 2
          /\ input[k].Rec.Header.Type \in {SSA, SLA} => input[k].Rec.Header.Count = 4

\* C16, as stated: whenever Parse returns a nil error, File.Memory is sorted
\* by ascending Offset and no two records' address ranges share an address;
\* whenever two Data records of the input cover a common address, Parse
\* returns ErrSegmentOverlap.
C16_Overlap ==
    last.op = "Parse"
        => /\ last.ret.err = NilError => SortedDisjoint(last.ret.file.Memory)
           /\ InputOverlap => last.ret.err = PlainError("ErrSegmentOverlap")

\* C16, amended: whenever Parse returns a nil error, File.Memory is sorted by
\* ascending Offset and no two records' address ranges share an address;
\* whenever two Data records of the input cover a common address, Parse
\* returns a non-nil error, and it returns ErrSegmentOverlap when no other
\* check fails first (every line is a record of a known type, the only EoF
\* record is the last line, every ESA/SSA/ELA/SLA record has its data length).
C16_OverlapChecked ==
    last.op = "Parse"
        => /\ last.ret.err = NilError => SortedDisjoint(last.ret.file.Memory)
           /\ InputOverlap => last.ret.err # NilError
           /\ (InputOverlap /\ CleanInput)
                => last.ret.err = PlainError("ErrSegmentOverlap")

\* C16's case: data at 0x0000-0x0001, data at 0x0001, EOF
C16_Witness ==
    /\ last.op = "Parse"
    /\ Len(input) = 3
    /\ InputOverlap
    /\ CleanInput
    /\ input[1].Rec.Header.Address = 0 /\ Len(input[1].Rec.Data) = 2
    /\ input[2].Rec.Header.Address = 1
    /\ last.ret.err = PlainError("ErrSegmentOverlap")

\* the byte of File f at address addr: the data byte of the record that
\* covers addr, pad where none does
ByteAt(f, addr, pad) ==
    LET at == {<<k, j>> \in (1..Len(f.Memory)) \X (1..MaxLen) :
                  /\ j <= Len(f.Memory[k].Data)
                  /\ Add32(f.Memory[k].Offset, j - 1) = addr}
    IN  IF at = {} THEN pad
        ELSE LET kj == CHOOSE kj \in at : TRUE
             IN  f.Memory[kj[1]].Data[kj[2]]

\* C17: for every File whose Memory is sorted and non-overlapping, every
\* offset and every destination length, Retrieve sets dst[i] to the data byte
\* of the record that covers address offset+i when one exists and to the pad
\* byte otherwise, for every index i of dst; GetByte(addr, pad) returns the
\* same value as Retrieve does for a one-byte destination at addr.  Stated
\* of the indexes whose address offset+i lies within the 32-bit address space.
C17_Retrieve ==
    /\ last.op = "Retrieve"
        => /\ Len(last.ret) = last.arg[2]
           /\ \A i \in 1..last.arg[2] :
                 ~Less32(Add32(last.arg[1], i - 1), last.arg[1])
                    => last.ret[i]
                         = ByteAt(ProgMem.File, Add32(last.arg[1], i - 1), ProgMem.Pad)
    /\ last.op = "GetByte"
        => last.ret = Retrieve(ProgMem.File, last.arg[1], 1, ProgMem.Pad)[1]

\* C18: every ParseError returned by Parse carries in Line the 1-based number
\* of the input line where the error occurred, whichever check raised it: a
\* malformed record line, an EOF record before the last line, or the wrong
\* data length of an ESA/SSA/ELA/SLA record.
C18_ErrorLine ==
    (last.op = "Parse" /\ last.ret.err.kind = "ParseError")
        => /\ last.ret.err.Line \in 1..Len(input)
           /\ LET l == input[last.ret.err.Line]
              IN  CASE last.ret.err.Err = "ErrUnexpectedEOF"
                         -> IsRecord(l, EoF) /\ last.ret.err.Line < Len(input)
                    [] last.ret.err.Err = "ErrIncorrectDataLength"
                         -> \/ l.Valid /\ l.Rec.Header.Type \in {ESA, ELA}
                                  /\ l.Rec.Header.Count # 2
                            \/ l.Valid /\ l.Rec.Header.Type \in {SSA, SLA}
                                  /\ l.Rec.Header.Count # 4
                    [] OTHER -> ~l.Valid

\* the records a successful Parse of the input is to hold: for each Data
\* record of the input its data at its address plus the base in force
Expected ==
    {[Offset |-> BaseAt(k) + input[k].Rec.Header.Address, Data |-> input[k].Rec.Data] :
        k \in {j \in 1..Len(input) : IsRecord(input[j], Data)}}

\* C21: in a successfully parsed file each Data record's Offset is its 16-bit
\* record address plus the base set by the most recent preceding ESA record
\* (its value times 16) or ELA record (its value times 65536), or plus 0 when
\* none precedes it; a later ESA/ELA record replaces the earlier base.
C21_OffsetBase ==
    (last.op = "Parse" /\ last.ret.err = NilError)
        => LET mem == last.ret.file.Memory
           IN  /\ Len(mem) = Cardinality({j \in 1..Len(input) : IsRecord(input[j], Data)})
               /\ {mem[i] : i \in 1..Len(mem)} = Expected

\* C21's case: linear base 0x0001, then segment base 0x0001, then data at
\* 0x0010: the record lies at 0x0020, not at 0x10020
C21_Witness ==
    /\ last.op = "Parse"
    /\ last.ret.err = NilError
    /\ Len(input) = 4
    /\ IsRecord(input[1], ELA) /\ input[1].Rec.Data = <<0, 1>>
    /\ IsRecord(input[2], ESA) /\ input[2].Rec.Data = <<0, 1>>
    /\ IsRecord(input[3], Data) /\ input[3].Rec.Header.Address = 16
    /\ last.ret.file.Memory = <<[Offset |-> 32, Data |-> <<120>>]>>

(***************************************************************************)
(* Claims about the FileReader.                                            *)
(***************************************************************************)
\* what one Read is to do, from a reader with 0 <= Offset: below Size() it
\* returns min(len(r), Size()-Offset) bytes, those of the addresses from
\* Offset on, and advances Offset by that number; from Size() on it returns
\* (0, io.EOF) and leaves Offset alone
ReadStep ==
    (last.op = "Read" /\ last.pre.Offset >= 0)
        => LET pre  == last.pre
               size == Size(pre.File)
               left == size - pre.Offset
               want == IF last.arg < left THEN last.arg ELSE left
           IN  IF pre.Offset < size
               THEN /\ last.ret.n = want
                    /\ ProgMem.Offset = pre.Offset + want
                    /\ \A i \in 1..want :
                          last.ret.data[i] = ByteAt(pre.File, pre.Offset + i - 1, pre.Pad)
               ELSE /\ last.ret.n = 0
                    /\ last.ret.err = "EOF"
                    /\ ProgMem.Offset = pre.Offset

\* a Read has returned io.EOF
GotEOF == last.op = "Read" /\ last.ret.err = "EOF"

\* C22: for a FileReader with 0 <= Offset, each Read with buffer r returns
\* n = min(len(r), Size()-Offset) and advances Offset by exactly n when
\* Offset < Size(), and returns (0, io.EOF) without changing Offset when
\* Offset >= Size(); hence, from Offset 0, repeated Reads with a non-empty
\* buffer deliver exactly Size() bytes in address order (Offset counts them:
\* it is Size() when io.EOF comes), Offset never exceeds Size(), and an
\* io.EOF is eventually returned.
C22_Read ==
    /\ []ReadStep
    /\ ProgMem.Offset = 0 => [](ProgMem.Offset <= Size(ProgMem.File))
    /\ ProgMem.Offset = 0 => <>(GotEOF /\ ProgMem.Offset = Size(ProgMem.File))
    /\ <>GotEOF

\* C22's case: the 5-byte file read from Offset 0 with buffers of 3 and 2
\* bytes, both filled without error, and a third Read that returns (0, io.EOF)
C22_Witness ==
    /\ Size(ProgMem.File) = 5
    /\ nOps = 3
    /\ prev.op = "Read" /\ prev.pre.Offset = 3 /\ prev.arg = 2
    /\ prev.ret.n = 2 /\ prev.ret.err = "nil"
    /\ last.op = "Read" /\ last.pre.Offset = 5
    /\ last.ret.n = 0 /\ last.ret.err = "EOF"
    /\ ProgMem.Offset = 5

\* C23: for every offset off >= 0 (off greater than Size() included) and
\* every buffer r, ReadAt returns a byte count n with 0 <= n <= len(r), where
\* n = len(r) with a nil error exactly when off+len(r) <= Size(), and it
\* leaves the reader's Offset unchanged.
C23_ReadAt ==
    last.op = "ReadAt"
        => LET len == last.arg[1]
               off == last.arg[2]
           IN  /\ 0 <= last.ret.n /\ last.ret.n <= len
               /\ (last.ret.n = len /\ last.ret.err = "nil")
                    <=> (off + len <= Size(last.pre.File))
               /\ ProgMem.Offset = last.pre.Offset

\* C24: after any sequence of Seek, Read and ReadAt calls on a FileReader
\* that starts at Offset 0, Offset is never negative: a Seek that returns
\* ErrNegativeOffset or ErrUnsupportedWhence leaves Offset at the value it
\* had before that call.
C24_SeekOffset ==
    /\ ProgMem.Offset >= 0
    /\ (last.op = "Seek" /\ last.ret.err \in {"ErrNegativeOffset", "ErrUnsupportedWhence"})
        => ProgMem.Offset = last.pre.Offset

====
